---- MODULE Spec2Model ----
(***************************************************************************)
(* A model of src/src/workload.rs: the pipeline `run` that builds the      *)
(* virtual filesystem from a bundle, resolves the deployment               *)
(* configuration, binds stdin/stdout/stderr, and hands the module to the   *)
(* execution engine.  Every `?` of `run` is a step of the model that       *)
(* either moves to the next step or ends the run with an error.            *)
(***************************************************************************)
EXTENDS Integers, Sequences, FiniteSets, TLC

\* Largest number of entries of an archive drawn as input.
MaxEntries == 2

\* The runs of the model.  Spec starts run 1 only.
Runs == {1, 2}

None == [tag |-> "None"]

----------------------------------------------------------------------------
(* Small helpers *)

Min(a, b) == IF a < b THEN a ELSE b

Max(a, b) == IF a < b THEN b ELSE a

Zeros(n) == [i \in 1..n |-> 0]

IsPrefix(p, q) == Len(p) <= Len(q) /\ SubSeq(q, 1, Len(p)) = p

ProperPrefixes(p) == {SubSeq(p, 1, k) : k \in 0..(Len(p) - 1)}

SeqsUpTo(S, n) == UNION {[1..k -> S] : k \in 0..n}

----------------------------------------------------------------------------
(* Error kinds: enum Error *)

ConfigurationError == [kind |-> "ConfigurationError"]

ExportNotFound == [kind |-> "ExportNotFound"]

InstantiationFailed == [kind |-> "InstantiationFailed"]

CallFailed == [kind |-> "CallFailed"]

IoError(err) == [kind |-> "IoError", err |-> err]

\* FromIoError, but mapping every I/O error to InstantiationFailed.
FromIoError_InstantiationFailed(err) == InstantiationFailed

\* impl From<std::io::Error> for Error
FromIoError(err) == IoError(err)

ErrorKinds ==
    {"ConfigurationError", "ExportNotFound", "InstantiationFailed", "CallFailed", "IoError"}

----------------------------------------------------------------------------
(* Deployment configuration: crate::config (Config, ReadOnly, WriteOnly)   *)

ReadOnlyNull == [tag |-> "Null"]

ReadOnlyInherit == [tag |-> "Inherit"]

ReadOnlyFile(p) == [tag |-> "File", path |-> p]

ReadOnlyBundle(p) == [tag |-> "Bundle", path |-> p]

WriteOnlyNull == [tag |-> "Null"]

WriteOnlyInherit == [tag |-> "Inherit"]

WriteOnlyFile(p) == [tag |-> "File", path |-> p]

\* Config::default(): every stream discarded.
ConfigDefault ==
    [stdin |-> ReadOnlyNull, stdout |-> WriteOnlyNull, stderr |-> WriteOnlyNull]

\* The host paths a configuration of the model can name.
HostPaths == {"in.host", "out.txt", "err.txt"}

\* The serialized form of a configuration is three bytes, one per stream.
\* This stands for the YAML text: a byte string either decodes to a
\* configuration or is rejected.
DecodeStdin(b) ==
    CASE b = 0 -> ReadOnlyNull
      [] b = 1 -> ReadOnlyInherit
      [] b = 2 -> ReadOnlyFile("in.host")
      [] b = 3 -> ReadOnlyBundle(<<"in.txt">>)
      [] OTHER -> None

DecodeWrite(b, p) ==
    CASE b = 0 -> WriteOnlyNull
      [] b = 1 -> WriteOnlyInherit
      [] b = 2 -> WriteOnlyFile(p)
      [] OTHER -> None

\* serde_yaml::from_slice::<Config>
Deserialize(bytes) ==
    IF /\ Len(bytes) = 3
       /\ DecodeStdin(bytes[1]) # None
       /\ DecodeWrite(bytes[2], "out.txt") # None
       /\ DecodeWrite(bytes[3], "err.txt") # None
    THEN [ok |-> TRUE,
          config |-> [stdin |-> DecodeStdin(bytes[1]),
                      stdout |-> DecodeWrite(bytes[2], "out.txt"),
                      stderr |-> DecodeWrite(bytes[3], "err.txt")]]
    ELSE [ok |-> FALSE, config |-> None]

----------------------------------------------------------------------------
(* Virtual filesystem: crate::virtfs (TarDirEntry, TarFileContents).       *)
(* A tree is a function from the path of each node (a sequence of          *)
(* segments, <<>> for the root) to the node.                               *)

Directory == [type |-> "Directory"]

\* A File is an offset and a length into the shared buffer.
TarFile(off, sz) ==
    [type |-> "File", contents |-> "TarFileContents", offset |-> off, size |-> sz]

NotFound == [type |-> "NotFound"]

\* TarDirEntry::empty_directory
empty_directory == (<<>> :> Directory)

\* TarDirEntry::lookup
lookup(tree, path) == IF path \in DOMAIN tree THEN tree[path] ELSE NotFound

\* The directory map of the root: the names directly below it.
RootMapGet(tree, name) == lookup(tree, <<name>>)

\* TarDirEntry::populate for one regular-file entry: walk or create the
\* directories of all but the last segment, then insert the File (replacing
\* whatever node was there).  A File met where a Directory is needed fails.
populate(tree, path, file) ==
    IF \E q \in ProperPrefixes(path) : q \in DOMAIN tree /\ tree[q].type = "File"
    THEN [ok |-> FALSE, tree |-> tree]
    ELSE LET kept == {q \in DOMAIN tree : ~IsPrefix(path, q)}
             dom == kept \cup ProperPrefixes(path) \cup {path}
         IN [ok |-> TRUE,
             tree |-> [q \in dom |->
                         IF q = path THEN file
                         ELSE IF q \in ProperPrefixes(path) THEN Directory
                         ELSE tree[q]]]

\* FileContents::size
size(file) == file.size

\* FileContents::pread: the number of bytes a positional read into a buffer
\* of buflen bytes at position pos delivers: as much as is available.
pread_n(file, buflen, pos) == Min(buflen, Max(file.size - pos, 0))

\* The bytes that read delivers.
pread_data(file, rc, buflen, pos) ==
    SubSeq(rc, file.offset + pos + 1, file.offset + pos + pread_n(file, buflen, pos))

\* The whole content of a File.
FileData(file, rc) == SubSeq(rc, file.offset + 1, file.offset + file.size)

----------------------------------------------------------------------------
(* The archive of a bundle: a sequence of entries.  In the byte image each *)
(* entry is one header byte followed by its data.                          *)

FileEntry(p, d) == [etype |-> "file", path |-> p, data |-> d]

\* An entry the archive reader rejects.
CorruptEntry == [etype |-> "corrupt", path |-> <<>>, data |-> <<>>]

\* Serialized configurations that occur in the archives of the model.
ConfigDatas ==
    { <<1, 1, 1>>, <<2, 0, 0>>, <<3, 0, 0>>, <<0, 2, 0>>, <<0, 2, 2>>, <<3, 2, 2>>,
      <<>>, <<9, 0, 0>> }

Entries ==
    {FileEntry(<<"config.yaml">>, d) : d \in ConfigDatas}
    \cup { FileEntry(<<"in.txt">>, <<104, 105>>),
           FileEntry(<<"in.txt", "x">>, <<>>),
           FileEntry(<<"config.yaml", "x">>, <<1>>),
           CorruptEntry }

Archives == SeqsUpTo(Entries, MaxEntries)

RECURSIVE ArchiveBytes(_)
ArchiveBytes(entries) ==
    IF entries = <<>> THEN <<>>
    ELSE <<255>> \o Head(entries).data \o ArchiveBytes(Tail(entries))

----------------------------------------------------------------------------
(* The input of a run: the bundle (container framing and archive), the     *)
(* arguments and the environment.                                          *)

MalformedBundle == [kind |-> "Malformed", archive |-> <<>>]

\* A module with no archive section.
PlainBundle == [kind |-> "Plain", archive |-> <<>>]

Bundled(a) == [kind |-> "Bundled", archive |-> a]

Bundles == {MalformedBundle, PlainBundle} \cup {Bundled(a) : a \in Archives}

ArgEnvs ==
    { [args |-> <<>>, envs |-> <<>>],
      [args |-> <<"a", "b", "c">>, envs |-> << <<"k", "v">> >>] }

Inputs == {[bundle |-> b, args |-> ae.args, envs |-> ae.envs] : b \in Bundles, ae \in ArgEnvs}

----------------------------------------------------------------------------
(* Host filesystem: std::fs::OpenOptions                                   *)

Absent == [st |-> "Absent", data |-> <<>>]

Regular(d) == [st |-> "Regular", data |-> d]

\* A path whose open (or whose wrapping as an OsFile) fails.
Denied == [st |-> "Denied", data |-> <<>>]

HostFsInits ==
    {fs \in [HostPaths -> {Absent, Regular(<<7>>), Denied}] :
        fs["in.host"] # Denied /\ fs["err.txt"] # Absent}

\* OpenOptions::new().read(true).open(path)
OpenRead(fs, p) ==
    CASE fs[p].st = "Regular" -> [err |-> "none", fs |-> fs]
      [] fs[p].st = "Absent" -> [err |-> "NotFound", fs |-> fs]
      [] OTHER -> [err |-> "PermissionDenied", fs |-> fs]

\* OpenCreateTruncate, but without truncate(true).
OpenCreateTruncate_NoTruncate(fs, p) ==
    IF fs[p].st = "Denied"
    THEN [err |-> "PermissionDenied", fs |-> fs]
    ELSE [err |-> "none",
          fs |-> IF fs[p].st = "Absent" THEN [fs EXCEPT ![p] = Regular(<<>>)] ELSE fs]

\* OpenOptions::new().create(true).truncate(true).write(true).open(path)
OpenCreateTruncate(fs, p) ==
    IF fs[p].st = "Denied"
    THEN [err |-> "PermissionDenied", fs |-> fs]
    ELSE [err |-> "none", fs |-> [fs EXCEPT ![p] = Regular(<<>>)]]

----------------------------------------------------------------------------
(* populate_virtfs *)

\* TarIterate, but leaving the loop after the first entry.
TarIterate_FirstOnly(tree, entries, off) ==
    IF entries = <<>> THEN [err |-> "none", tree |-> tree]
    ELSE LET e == Head(entries)
             p == populate(tree, e.path, TarFile(off + 1, Len(e.data)))
         IN IF e.etype = "corrupt" THEN [err |-> "ArchiveError", tree |-> tree]
            ELSE IF ~p.ok THEN [err |-> "PopulateError", tree |-> p.tree]
            ELSE [err |-> "none", tree |-> p.tree]

\* The loop over ar.entries() inside the handler: each entry is read (a
\* corrupt one ends the loop with the reader's error) and populated.
RECURSIVE TarIterate(_, _, _)
TarIterate(tree, entries, off) ==
    IF entries = <<>> THEN [err |-> "none", tree |-> tree]
    ELSE LET e == Head(entries)
             p == populate(tree, e.path, TarFile(off + 1, Len(e.data)))
         IN IF e.etype = "corrupt" THEN [err |-> "ArchiveError", tree |-> tree]
            ELSE IF ~p.ok THEN [err |-> "PopulateError", tree |-> p.tree]
            ELSE TarIterate(p.tree, Tail(entries), off + 1 + Len(e.data))

\* crate::bundle::parse: the scan of the container.  A malformed container
\* is the parser's std::io::Error; otherwise the archive sections found (at
\* most one here) are handed to the handler; other sections are ignored.
parse(bundle) ==
    CASE bundle.kind = "Malformed" -> [err |-> "BundleError", sections |-> <<>>]
      [] bundle.kind = "Plain" -> [err |-> "none", sections |-> <<>>]
      [] OTHER -> [err |-> "none", sections |-> <<bundle.archive>>]

\* populate_virtfs: the handler copies the section into a shared buffer and
\* populates the root from its entries; its std::io::Error is the parser's
\* error, which `?` returns.
populate_virtfs(tree, bundle) ==
    LET p == parse(bundle)
    IN IF p.err # "none" THEN [err |-> p.err, tree |-> tree, rc |-> <<>>]
       ELSE IF p.sections = <<>> THEN [err |-> "none", tree |-> tree, rc |-> <<>>]
       ELSE LET it == TarIterate(tree, p.sections[1], 0)
            IN [err |-> it.err, tree |-> it.tree, rc |-> ArchiveBytes(p.sections[1])]

----------------------------------------------------------------------------
(* The read loop of the configuration resource *)

\* buf[len..] overwritten by the bytes read.
Fill(buf, len, got) ==
    [i \in 1..Len(buf) |-> IF i > len /\ i <= len + Len(got) THEN got[i - len] ELSE buf[i]]

RECURSIVE ReadLoop(_, _, _, _)
ReadLoop(file, rc, buf, len) ==
    LET n == pread_n(file, Len(buf) - len, len)
        got == pread_data(file, rc, Len(buf) - len, len)
    IN IF n = 0 THEN SubSeq(buf, 1, len)
       ELSE ReadLoop(file, rc, Fill(buf, len, got) \o Zeros((len + n) * 2), len + n)

\* The bytes handed to the deserializer.
ReadConfig(file, rc) == ReadLoop(file, rc, Zeros(size(file)), 0)

----------------------------------------------------------------------------
(* State *)

VARIABLES
    input,          \* input[r]: the bytes, args and envs run r was called with
    pc,             \* pc[r]: the step of run r that executes next
    root,           \* root[r]: the virtual filesystem tree
    rc,             \* rc[r]: the shared buffer the Files of root[r] point into
    deploy_config,  \* deploy_config[r]
    builder,        \* builder[r]: the WasiCtxBuilder
    engine,         \* engine[r]: what the linker holds and what was compiled
    function,       \* function[r]: the resolved default entry point
    invocation,     \* invocation[r]: the call of the entry point, once made, with
                    \* the arguments and environment the workload finds in its context
    outcome,        \* outcome[r]: what run returned
    handles,        \* handles[r]: the host files run r holds open
    opens,          \* opens[r]: every host open run r performed, in order
    trace,          \* trace[r]: the steps run r has executed, in order
    hostfs,         \* the host filesystem, shared by all runs
    host0,          \* the host filesystem before any run started
    reading         \* the read loop of the configuration resource, step by step

vars ==
    <<input, pc, root, rc, deploy_config, builder, engine, function, invocation,
      outcome, handles, opens, trace, hostfs, host0, reading>>

Some(x) == [tag |-> "Some", val |-> x]

Unknown == [tag |-> "Unknown"]

Unbound == [tag |-> "Unbound"]

\* wasi_common::virtfs::InMemoryFile over a clone of a bundle File
InMemoryFile(file) == [tag |-> "InMemoryFile", file |-> file]

\* wasi_common::OsFile over an opened host file
OsFile(p) == [tag |-> "OsFile", path |-> p]

ReadPipe(s) == [tag |-> "ReadPipe", of |-> s]

WritePipe(s) == [tag |-> "WritePipe", of |-> s]

\* No read loop is under way.
Idle ==
    [at |-> "idle", content |-> TarFile(0, 0), rc |-> <<>>, buf |-> <<>>, len |-> 0,
     n |-> 0, reads |-> 0, slice |-> <<>>]

\* WasiCtxBuilder::new()
NewBuilder ==
    [args |-> <<>>, envs |-> <<>>, stdin |-> Unbound, stdout |-> Unbound,
     stderr |-> Unbound, preopened |-> <<>>]

\* The steps of run in the order of the code.
StepOrder ==
    <<"new", "populate_virtfs", "config", "stdin", "stdout", "stderr", "build",
      "add_to_linker", "from_binary", "module", "get_default", "call">>

NoOutcome == [values |-> None, error |-> None]

\* One run: run 1 is called with any input on any host filesystem.
Init ==
    /\ hostfs \in HostFsInits
    /\ host0 = hostfs
    /\ \E in \in Inputs :
          /\ input = [r \in Runs |-> in]
          /\ pc = [r \in Runs |-> IF r = 1 THEN "new" ELSE "off"]
    /\ root = [r \in Runs |-> empty_directory]
    /\ rc = [r \in Runs |-> <<>>]
    /\ deploy_config = [r \in Runs |-> None]
    /\ builder = [r \in Runs |-> None]
    /\ engine = [r \in Runs |-> [linker |-> {}, ctx |-> None, module |-> None, export |-> Unknown]]
    /\ function = [r \in Runs |-> None]
    /\ invocation = [r \in Runs |-> None]
    /\ outcome = [r \in Runs |-> NoOutcome]
    /\ handles = [r \in Runs |-> {}]
    /\ opens = [r \in Runs |-> <<>>]
    /\ trace = [r \in Runs |-> <<>>]
    /\ reading = Idle

----------------------------------------------------------------------------
(* How a step ends *)

\* The step succeeded: run r goes on with the step `next`, holding `hs`.
Continue(r, step, next, hs) ==
    /\ pc' = [pc EXCEPT ![r] = next]
    /\ trace' = [trace EXCEPT ![r] = Append(@, step)]
    /\ handles' = [handles EXCEPT ![r] = hs]
    /\ UNCHANGED outcome

\* Fail, but returning the values gathered so far along with the error.
Fail_PartialValues(r, step, e) ==
    /\ pc' = [pc EXCEPT ![r] = "done"]
    /\ trace' = [trace EXCEPT ![r] = Append(@, step)]
    /\ handles' = [handles EXCEPT ![r] = {}]
    /\ outcome' = [outcome EXCEPT ![r] = [values |-> Some(<<>>), error |-> Some(e)]]

\* Fail, but trying the failed step again instead of returning.
Fail_Retry(r, step, e) ==
    /\ trace' = [trace EXCEPT ![r] = Append(@, step)]
    /\ UNCHANGED <<pc, handles, outcome>>

\* `?` on an Err, or `return Err(..)`: run r returns the error; everything it
\* owns is dropped, which closes the host files it opened.
Fail(r, step, e) ==
    /\ pc' = [pc EXCEPT ![r] = "done"]
    /\ trace' = [trace EXCEPT ![r] = Append(@, step)]
    /\ handles' = [handles EXCEPT ![r] = {}]
    /\ outcome' = [outcome EXCEPT ![r] = [values |-> None, error |-> Some(e)]]

\* Succeed, but returning only the first result value.
Succeed_FirstOnly(r, step, vals) ==
    /\ pc' = [pc EXCEPT ![r] = "done"]
    /\ trace' = [trace EXCEPT ![r] = Append(@, step)]
    /\ handles' = [handles EXCEPT ![r] = {}]
    /\ outcome' = [outcome EXCEPT ![r] =
                      [values |-> Some(SubSeq(vals, 1, Min(1, Len(vals)))), error |-> None]]

\* run returns Ok(values).
Succeed(r, step, vals) ==
    /\ pc' = [pc EXCEPT ![r] = "done"]
    /\ trace' = [trace EXCEPT ![r] = Append(@, step)]
    /\ handles' = [handles EXCEPT ![r] = {}]
    /\ outcome' = [outcome EXCEPT ![r] = [values |-> Some(vals), error |-> None]]

----------------------------------------------------------------------------
(* The steps of run *)

\* New, but with a File as the root.
New_RootIsFile(r) ==
    /\ pc[r] = "new"
    /\ builder' = [builder EXCEPT ![r] =
                      [NewBuilder EXCEPT !.args = input[r].args, !.envs = input[r].envs]]
    /\ root' = [root EXCEPT ![r] = (<<>> :> TarFile(0, 0))]
    /\ Continue(r, "new", "populate_virtfs", handles[r])
    /\ UNCHANGED <<input, host0, reading, rc, deploy_config, engine, function, invocation, opens, hostfs>>

\* New, but without handing args and envs to the builder.
New_NoArgs(r) ==
    /\ pc[r] = "new"
    /\ builder' = [builder EXCEPT ![r] = NewBuilder]
    /\ root' = [root EXCEPT ![r] = empty_directory]
    /\ Continue(r, "new", "populate_virtfs", handles[r])
    /\ UNCHANGED <<input, host0, reading, rc, deploy_config, engine, function, invocation, opens, hostfs>>

\* Engine, store, linker and builder are created; args and envs are handed
\* to the builder; the root is an empty directory.
New(r) ==
    /\ pc[r] = "new"
    /\ builder' = [builder EXCEPT ![r] =
                      [NewBuilder EXCEPT !.args = input[r].args, !.envs = input[r].envs]]
    /\ root' = [root EXCEPT ![r] = empty_directory]
    /\ Continue(r, "new", "populate_virtfs", handles[r])
    /\ UNCHANGED <<input, host0, reading, rc, deploy_config, engine, function, invocation, opens, hostfs>>

\* populate_virtfs(&mut root, bytes)?
PopulateVirtfs(r) ==
    /\ pc[r] = "populate_virtfs"
    /\ LET res == populate_virtfs(root[r], input[r].bundle)
       IN /\ root' = [root EXCEPT ![r] = res.tree]
          /\ rc' = [rc EXCEPT ![r] = res.rc]
          /\ IF res.err # "none"
             THEN Fail(r, "populate_virtfs", FromIoError(res.err))
             ELSE Continue(r, "populate_virtfs", "config", handles[r])
    /\ UNCHANGED <<input, host0, reading, deploy_config, builder, engine, function, invocation, opens, hostfs>>

\* ResolveConfig, but rejecting a configuration path that is a Directory.
ResolveConfig_DirectoryFails(tree, buf, preadOk) ==
    LET e == RootMapGet(tree, "config.yaml")
    IN IF e.type = "File"
       THEN IF ~preadOk THEN [err |-> Some(InstantiationFailed), config |-> None]
            ELSE LET d == Deserialize(ReadConfig(e, buf))
                 IN IF d.ok THEN [err |-> None, config |-> d.config]
                    ELSE [err |-> Some(InstantiationFailed), config |-> None]
       ELSE IF e.type = "Directory" THEN [err |-> Some(InstantiationFailed), config |-> None]
       ELSE [err |-> None, config |-> ConfigDefault]

\* ResolveConfig, but requiring the configuration resource.
ResolveConfig_AbsentFails(tree, buf, preadOk) ==
    LET e == RootMapGet(tree, "config.yaml")
    IN IF e.type = "File"
       THEN IF ~preadOk THEN [err |-> Some(InstantiationFailed), config |-> None]
            ELSE LET d == Deserialize(ReadConfig(e, buf))
                 IN IF d.ok THEN [err |-> None, config |-> d.config]
                    ELSE [err |-> Some(InstantiationFailed), config |-> None]
       ELSE IF e.type = "NotFound" THEN [err |-> Some(InstantiationFailed), config |-> None]
       ELSE [err |-> None, config |-> ConfigDefault]

\* The result of reading the deployment configuration from the bundled
\* resource; preadOk tells whether the positional reads succeed.
ResolveConfig(tree, buf, preadOk) ==
    LET e == RootMapGet(tree, "config.yaml")
    IN IF e.type = "File"
       THEN IF ~preadOk THEN [err |-> Some(InstantiationFailed), config |-> None]
            ELSE LET d == Deserialize(ReadConfig(e, buf))
                 IN IF d.ok THEN [err |-> None, config |-> d.config]
                    ELSE [err |-> Some(InstantiationFailed), config |-> None]
       ELSE [err |-> None, config |-> ConfigDefault]

ConfigStep(r) ==
    /\ pc[r] = "config"
    /\ IF root[r][<<>>].type # "Directory"
       THEN \* unreachable!()
            /\ pc' = [pc EXCEPT ![r] = "panic"]
            /\ trace' = [trace EXCEPT ![r] = Append(@, "config")]
            /\ UNCHANGED <<deploy_config, outcome, handles>>
       ELSE \E preadOk \in BOOLEAN :
              LET res == ResolveConfig(root[r], rc[r], preadOk)
              IN IF res.err # None
                 THEN /\ Fail(r, "config", res.err.val)
                      /\ UNCHANGED deploy_config
                 ELSE /\ deploy_config' = [deploy_config EXCEPT ![r] = res.config]
                      /\ Continue(r, "config", "stdin", handles[r])
    /\ UNCHANGED <<input, host0, reading, root, rc, builder, engine, function, invocation, opens, hostfs>>

\* BindStdin, but leaving stdin unbound when the bundle path is a Directory.
BindStdin_DirectoryUnbound(policy, tree, fs, old) ==
    CASE policy.tag = "Bundle" ->
           LET entry == lookup(tree, policy.path)
           IN CASE entry.type = "NotFound" ->
                     [err |-> Some(ConfigurationError), stream |-> old, opened |-> {}]
                [] entry.type = "Directory" ->
                     [err |-> None, stream |-> old, opened |-> {}]
                [] OTHER ->
                     [err |-> None, stream |-> InMemoryFile(entry), opened |-> {}]
      [] policy.tag = "File" ->
           LET o == OpenRead(fs, policy.path)
           IN IF o.err # "none"
              THEN [err |-> Some(FromIoError(o.err)), stream |-> old, opened |-> {}]
              ELSE [err |-> None, stream |-> OsFile(policy.path), opened |-> {policy.path}]
      [] policy.tag = "Inherit" ->
           [err |-> None, stream |-> ReadPipe("stdin"), opened |-> {}]
      [] OTHER -> [err |-> None, stream |-> old, opened |-> {}]

\* BindStdin, but with the downcast of the File's contents never succeeding.
BindStdin_FileUnbound(policy, tree, fs, old) ==
    CASE policy.tag = "Bundle" ->
           LET entry == lookup(tree, policy.path)
           IN CASE entry.type = "NotFound" ->
                     [err |-> Some(ConfigurationError), stream |-> old, opened |-> {}]
                [] entry.type = "Directory" ->
                     [err |-> Some(ConfigurationError), stream |-> old, opened |-> {}]
                [] OTHER -> [err |-> None, stream |-> old, opened |-> {}]
      [] policy.tag = "File" ->
           LET o == OpenRead(fs, policy.path)
           IN IF o.err # "none"
              THEN [err |-> Some(FromIoError(o.err)), stream |-> old, opened |-> {}]
              ELSE [err |-> None, stream |-> OsFile(policy.path), opened |-> {policy.path}]
      [] policy.tag = "Inherit" ->
           [err |-> None, stream |-> ReadPipe("stdin"), opened |-> {}]
      [] OTHER -> [err |-> None, stream |-> old, opened |-> {}]

\* The binding of stdin: [err, stdin, opened] for a policy.
BindStdin(policy, tree, fs, old) ==
    CASE policy.tag = "Bundle" ->
           LET entry == lookup(tree, policy.path)
           IN CASE entry.type = "NotFound" ->
                     [err |-> Some(ConfigurationError), stream |-> old, opened |-> {}]
                [] entry.type = "Directory" ->
                     [err |-> Some(ConfigurationError), stream |-> old, opened |-> {}]
                [] OTHER ->
                     IF entry.contents = "TarFileContents"
                     THEN [err |-> None, stream |-> InMemoryFile(entry), opened |-> {}]
                     ELSE [err |-> None, stream |-> old, opened |-> {}]
      [] policy.tag = "File" ->
           LET o == OpenRead(fs, policy.path)
           IN IF o.err # "none"
              THEN [err |-> Some(FromIoError(o.err)), stream |-> old, opened |-> {}]
              ELSE [err |-> None, stream |-> OsFile(policy.path), opened |-> {policy.path}]
      [] policy.tag = "Inherit" ->
           [err |-> None, stream |-> ReadPipe("stdin"), opened |-> {}]
      [] OTHER -> [err |-> None, stream |-> old, opened |-> {}]

\* StdinStep, but moving the bundle File out of the tree instead of cloning it.
StdinStep_TakesFile(r) ==
    /\ pc[r] = "stdin"
    /\ LET b == BindStdin(deploy_config[r].stdin, root[r], hostfs, builder[r].stdin)
       IN /\ builder' = [builder EXCEPT ![r].stdin = b.stream]
          /\ root' = [root EXCEPT ![r] =
                         IF b.stream.tag = "InMemoryFile"
                         THEN [q \in DOMAIN @ \ {deploy_config[r].stdin.path} |-> @[q]]
                         ELSE @]
          /\ opens' = [opens EXCEPT ![r] =
                          IF deploy_config[r].stdin.tag = "File"
                          THEN Append(@, [path |-> deploy_config[r].stdin.path, mode |-> "read",
                                          ok |-> b.err = None])
                          ELSE @]
          /\ IF b.err # None
             THEN Fail(r, "stdin", b.err.val)
             ELSE Continue(r, "stdin", "stdout", handles[r] \cup b.opened)
    /\ UNCHANGED <<input, host0, reading, rc, deploy_config, engine, function, invocation, hostfs>>

StdinStep(r) ==
    /\ pc[r] = "stdin"
    /\ LET b == BindStdin(deploy_config[r].stdin, root[r], hostfs, builder[r].stdin)
       IN /\ builder' = [builder EXCEPT ![r].stdin = b.stream]
          /\ opens' = [opens EXCEPT ![r] =
                          IF deploy_config[r].stdin.tag = "File"
                          THEN Append(@, [path |-> deploy_config[r].stdin.path, mode |-> "read",
                                          ok |-> b.err = None])
                          ELSE @]
          /\ IF b.err # None
             THEN Fail(r, "stdin", b.err.val)
             ELSE Continue(r, "stdin", "stdout", handles[r] \cup b.opened)
    /\ UNCHANGED <<input, host0, reading, root, rc, deploy_config, engine, function, invocation, hostfs>>

\* BindWrite, but reporting a failed open as a configuration error.
BindWrite_ConfigurationError(policy, fs, old, name) ==
    CASE policy.tag = "File" ->
           LET o == OpenCreateTruncate(fs, policy.path)
           IN IF o.err # "none"
              THEN [err |-> Some(ConfigurationError), stream |-> old, opened |-> {}, fs |-> o.fs]
              ELSE [err |-> None, stream |-> OsFile(policy.path),
                    opened |-> {policy.path}, fs |-> o.fs]
      [] policy.tag = "Inherit" ->
           [err |-> None, stream |-> WritePipe(name), opened |-> {}, fs |-> fs]
      [] OTHER -> [err |-> None, stream |-> old, opened |-> {}, fs |-> fs]

\* The binding of stdout or stderr: [err, stream, opened, fs] for a policy.
BindWrite(policy, fs, old, name) ==
    CASE policy.tag = "File" ->
           LET o == OpenCreateTruncate(fs, policy.path)
           IN IF o.err # "none"
              THEN [err |-> Some(FromIoError(o.err)), stream |-> old, opened |-> {}, fs |-> o.fs]
              ELSE [err |-> None, stream |-> OsFile(policy.path),
                    opened |-> {policy.path}, fs |-> o.fs]
      [] policy.tag = "Inherit" ->
           [err |-> None, stream |-> WritePipe(name), opened |-> {}, fs |-> fs]
      [] OTHER -> [err |-> None, stream |-> old, opened |-> {}, fs |-> fs]

StdoutStep(r) ==
    /\ pc[r] = "stdout"
    /\ LET b == BindWrite(deploy_config[r].stdout, hostfs, builder[r].stdout, "stdout")
       IN /\ builder' = [builder EXCEPT ![r].stdout = b.stream]
          /\ hostfs' = b.fs
          /\ opens' = [opens EXCEPT ![r] =
                          IF deploy_config[r].stdout.tag = "File"
                          THEN Append(@, [path |-> deploy_config[r].stdout.path,
                                          mode |-> "create-truncate-write",
                                          ok |-> b.err = None])
                          ELSE @]
          /\ IF b.err # None
             THEN Fail(r, "stdout", b.err.val)
             ELSE Continue(r, "stdout", "stderr", handles[r] \cup b.opened)
    /\ UNCHANGED <<input, host0, reading, root, rc, deploy_config, engine, function, invocation>>

StderrStep(r) ==
    /\ pc[r] = "stderr"
    /\ LET b == BindWrite(deploy_config[r].stderr, hostfs, builder[r].stderr, "stderr")
       IN /\ builder' = [builder EXCEPT ![r].stderr = b.stream]
          /\ hostfs' = b.fs
          /\ opens' = [opens EXCEPT ![r] =
                          IF deploy_config[r].stderr.tag = "File"
                          THEN Append(@, [path |-> deploy_config[r].stderr.path,
                                          mode |-> "create-truncate-write",
                                          ok |-> b.err = None])
                          ELSE @]
          /\ IF b.err # None
             THEN Fail(r, "stderr", b.err.val)
             ELSE Continue(r, "stderr", "build", handles[r] \cup b.opened)
    /\ UNCHANGED <<input, host0, reading, root, rc, deploy_config, engine, function, invocation>>

----------------------------------------------------------------------------
(* The hand-off to the engine.  What the engine answers depends on the     *)
(* module, which run does not look into: each answer is a choice.          *)

\* BuildStep, but without preopening the root.
BuildStep_NoPreopen(r) ==
    /\ pc[r] = "build"
    /\ UNCHANGED builder
    /\ \E ok \in BOOLEAN :
          IF ok
          THEN /\ engine' = [engine EXCEPT ![r].ctx = Some(builder[r])]
               /\ Continue(r, "build", "add_to_linker", handles[r])
          ELSE /\ Fail(r, "build", InstantiationFailed)
               /\ UNCHANGED engine
    /\ UNCHANGED <<input, host0, reading, root, rc, deploy_config, function, invocation, opens, hostfs>>

\* builder.preopened_virt(root.into(), "."); builder.build()
BuildStep(r) ==
    /\ pc[r] = "build"
    /\ LET b == [builder[r] EXCEPT
                    !.preopened = Append(@, [name |-> ".", tree |-> root[r]])]
       IN /\ builder' = [builder EXCEPT ![r] = b]
          /\ \E ok \in BOOLEAN :
                IF ok
                THEN /\ engine' = [engine EXCEPT ![r].ctx = Some(b)]
                     /\ Continue(r, "build", "add_to_linker", handles[r])
                ELSE /\ Fail(r, "build", InstantiationFailed)
                     /\ UNCHANGED engine
    /\ UNCHANGED <<input, host0, reading, root, rc, deploy_config, function, invocation, opens, hostfs>>

\* AddToLinkerStep, but with one linker for all runs.
AddToLinkerStep_SharedLinker(r) ==
    /\ pc[r] = "add_to_linker"
    /\ \E ok \in BOOLEAN :
          IF ok
          THEN /\ engine' = [s \in Runs |-> [engine[s] EXCEPT !.linker = @ \cup {"wasi"}]]
               /\ Continue(r, "add_to_linker", "from_binary", handles[r])
          ELSE /\ Fail(r, "add_to_linker", InstantiationFailed)
               /\ UNCHANGED engine
    /\ UNCHANGED <<input, host0, reading, root, rc, deploy_config, builder, function, invocation, opens, hostfs>>

\* wasi.add_to_linker(&mut linker)
AddToLinkerStep(r) ==
    /\ pc[r] = "add_to_linker"
    /\ \E ok \in BOOLEAN :
          IF ok
          THEN /\ engine' = [engine EXCEPT ![r].linker = @ \cup {"wasi"}]
               /\ Continue(r, "add_to_linker", "from_binary", handles[r])
          ELSE /\ Fail(r, "add_to_linker", InstantiationFailed)
               /\ UNCHANGED engine
    /\ UNCHANGED <<input, host0, reading, root, rc, deploy_config, builder, function, invocation, opens, hostfs>>

\* FromBinaryStep, but reporting invalid bytecode as a failed call.
FromBinaryStep_CallFailed(r) ==
    /\ pc[r] = "from_binary"
    /\ \E valid \in BOOLEAN :
          IF valid
          THEN /\ engine' = [engine EXCEPT ![r].module = Some("compiled")]
               /\ Continue(r, "from_binary", "module", handles[r])
          ELSE /\ Fail(r, "from_binary", CallFailed)
               /\ UNCHANGED engine
    /\ UNCHANGED <<input, host0, reading, root, rc, deploy_config, builder, function, invocation, opens, hostfs>>

\* wasmtime::Module::from_binary(engine, bytes)
FromBinaryStep(r) ==
    /\ pc[r] = "from_binary"
    /\ \E valid \in BOOLEAN :
          IF valid
          THEN /\ engine' = [engine EXCEPT ![r].module = Some("compiled")]
               /\ Continue(r, "from_binary", "module", handles[r])
          ELSE /\ Fail(r, "from_binary", InstantiationFailed)
               /\ UNCHANGED engine
    /\ UNCHANGED <<input, host0, reading, root, rc, deploy_config, builder, function, invocation, opens, hostfs>>

\* linker.module("", &module)
ModuleStep(r) ==
    /\ pc[r] = "module"
    /\ \E ok \in BOOLEAN :
          IF ok
          THEN /\ engine' = [engine EXCEPT ![r].linker = @ \cup {"module"}]
               /\ Continue(r, "module", "get_default", handles[r])
          ELSE /\ Fail(r, "module", InstantiationFailed)
               /\ UNCHANGED engine
    /\ UNCHANGED <<input, host0, reading, root, rc, deploy_config, builder, function, invocation, opens, hostfs>>

\* The default entry point of the module, as the engine finds it: none, or
\* a function of some number of parameters.  engine[r].export keeps it.
DefaultExports == {None, Some([params |-> 0]), Some([params |-> 1])}

\* GetDefaultStep, but falling back to a function that does nothing when the
\* module has no default entry point.
GetDefaultStep_NoopFallback(r) ==
    /\ pc[r] = "get_default"
    /\ \E export \in DefaultExports :
          /\ engine' = [engine EXCEPT ![r].export = export]
          /\ function' = [function EXCEPT ![r] =
                             IF export # None THEN export ELSE Some([params |-> 0])]
          /\ Continue(r, "get_default", "call", handles[r])
    /\ UNCHANGED <<input, host0, reading, root, rc, deploy_config, builder, invocation, opens, hostfs>>

\* linker.get_default("")
GetDefaultStep(r) ==
    /\ pc[r] = "get_default"
    /\ \E export \in DefaultExports :
          /\ engine' = [engine EXCEPT ![r].export = export]
          /\ IF export # None
             THEN /\ function' = [function EXCEPT ![r] = export]
                  /\ Continue(r, "get_default", "call", handles[r])
             ELSE /\ Fail(r, "get_default", ExportNotFound)
                  /\ UNCHANGED function
    /\ UNCHANGED <<input, host0, reading, root, rc, deploy_config, builder, invocation, opens, hostfs>>

\* What an entry point can do when it runs: write to its stdout, then trap
\* or return its result values (argc: the number of its arguments).
Behaviours ==
    { [writes |-> <<>>, traps |-> FALSE, argc |-> FALSE, results |-> <<1>>],
      [writes |-> <<>>, traps |-> FALSE, argc |-> TRUE, results |-> <<>>],
      [writes |-> <<72>>, traps |-> FALSE, argc |-> FALSE, results |-> <<>>],
      [writes |-> <<>>, traps |-> FALSE, argc |-> FALSE, results |-> <<1, 2>>],
      [writes |-> <<72>>, traps |-> TRUE, argc |-> FALSE, results |-> <<>>] }

\* The result values an entry point of behaviour b returns in context ctx.
ResultsOf(b, ctx) == IF b.argc THEN <<Len(ctx.args)>> ELSE b.results

\* A write of the workload to one of its streams: the first write through
\* a handle of a host file goes to the start of the file.
WriteStream(fs, stream, bytes) ==
    IF stream.tag = "OsFile" /\ fs[stream.path].st = "Regular"
    THEN [fs EXCEPT ![stream.path].data =
                      bytes \o SubSeq(@, Len(bytes) + 1, Len(@))]
    ELSE fs

\* Default::default(): the arguments of the call.
CallArgs == <<>>

\* What function.call(args) gives for an entry point of behaviour b:
\* the engine rejects a call whose arguments do not fit the signature.
CallResult(f, args, b, ctx) ==
    IF Len(args) # f.params THEN [ran |-> FALSE, returned |-> None]
    ELSE IF b.traps THEN [ran |-> TRUE, returned |-> None]
    ELSE [ran |-> TRUE, returned |-> Some(ResultsOf(b, ctx))]

\* function.call(Default::default()).or(Err(Error::CallFailed))
CallStep(r) ==
    /\ pc[r] = "call"
    /\ \E b \in Behaviours :
          LET res == CallResult(function[r].val, CallArgs, b, engine[r].ctx.val)
          IN /\ invocation' = [invocation EXCEPT ![r] =
                                  [args |-> CallArgs, ran |-> res.ran,
                                   argv |-> engine[r].ctx.val.args,
                                   envs |-> engine[r].ctx.val.envs,
                                   argc |-> b.argc,
                                   wrote |-> IF res.ran THEN b.writes ELSE <<>>,
                                   returned |-> res.returned]]
             /\ hostfs' = IF res.ran
                          THEN WriteStream(hostfs, engine[r].ctx.val.stdout, b.writes)
                          ELSE hostfs
             /\ IF res.returned # None
                THEN Succeed(r, "call", res.returned.val)
                ELSE Fail(r, "call", CallFailed)
    /\ UNCHANGED <<input, host0, reading, root, rc, deploy_config, builder, engine, function, opens>>

----------------------------------------------------------------------------
(* Specification *)

Step(r) ==
    \/ New(r)
    \/ PopulateVirtfs(r)
    \/ ConfigStep(r)
    \/ StdinStep(r)
    \/ StdoutStep(r)
    \/ StderrStep(r)
    \/ BuildStep(r)
    \/ AddToLinkerStep(r)
    \/ FromBinaryStep(r)
    \/ ModuleStep(r)
    \/ GetDefaultStep(r)
    \/ CallStep(r)

Next == \E r \in Runs : Step(r)

Spec == Init /\ [][Next]_vars

----------------------------------------------------------------------------
(* Two callers running run at the same time, each with its own input, on   *)
(* one host.                                                               *)

\* Bundles whose configurations bind stdout and stderr to host paths, bind
\* stdin and stdout to host paths, or bind nothing.
ConcBundles ==
    { Bundled(<<FileEntry(<<"config.yaml">>, <<0, 2, 2>>)>>),
      Bundled(<<FileEntry(<<"config.yaml">>, <<2, 2, 0>>)>>),
      PlainBundle }

ConcHostFs == {fs \in HostFsInits : fs["in.host"] = Regular(<<7>>) /\ fs["out.txt"] # Denied}

InitConc ==
    /\ hostfs \in ConcHostFs
    /\ host0 = hostfs
    /\ \E b1 \in ConcBundles, b2 \in ConcBundles :
          input = (1 :> [bundle |-> b1, args |-> <<>>, envs |-> <<>>])
                  @@ (2 :> [bundle |-> b2, args |-> <<"a", "b", "c">>, envs |-> <<>>])
    /\ pc = [r \in Runs |-> "new"]
    /\ root = [r \in Runs |-> empty_directory]
    /\ rc = [r \in Runs |-> <<>>]
    /\ deploy_config = [r \in Runs |-> None]
    /\ builder = [r \in Runs |-> None]
    /\ engine = [r \in Runs |-> [linker |-> {}, ctx |-> None, module |-> None, export |-> Unknown]]
    /\ function = [r \in Runs |-> None]
    /\ invocation = [r \in Runs |-> None]
    /\ outcome = [r \in Runs |-> NoOutcome]
    /\ handles = [r \in Runs |-> {}]
    /\ opens = [r \in Runs |-> <<>>]
    /\ trace = [r \in Runs |-> <<>>]
    /\ reading = Idle

\* The statements of the two calls interleave in any order.
SpecConc == InitConc /\ [][Next]_vars

----------------------------------------------------------------------------
(* The read loop of the configuration resource, one positional read at a   *)
(* time, for a pread that delivers any number of the available bytes.      *)

MaxFileLen == 4

Bytes == {1, 2}

\* The Files read and the buffers they point into.
Contents ==
    {c \in [file : {TarFile(off, sz) : off \in 0..1, sz \in 0..MaxFileLen},
            rc : [1..(MaxFileLen + 1) -> Bytes]] :
        c.file.offset + c.file.size <= MaxFileLen + 1}

\* InitialBuf, but without the resize.
InitialBuf_Empty(content) == <<>>

\* let mut buf = Vec::new(); buf.resize(content.size() as usize, 0u8)
InitialBuf(content) == Zeros(size(content))

\* Grow, but with the grown buffer zeroed.
Grow_Clears(buf, len) == Zeros(Len(buf) + len * 2)

\* buf.extend((0..len * 2).map(|_| 0u8))
Grow(buf, len) == buf \o Zeros(len * 2)

\* The loop is entered for a File: buf is resized, len is 0.
InitRead ==
    /\ \E c \in Contents :
          reading = [at |-> "loop", content |-> c.file, rc |-> c.rc,
                     buf |-> InitialBuf(c.file), len |-> 0, n |-> 0, reads |-> 0,
                     slice |-> <<>>]
    /\ hostfs = [p \in HostPaths |-> Absent]
    /\ host0 = hostfs
    /\ input = [r \in Runs |-> [bundle |-> PlainBundle, args |-> <<>>, envs |-> <<>>]]
    /\ pc = [r \in Runs |-> "off"]
    /\ root = [r \in Runs |-> empty_directory]
    /\ rc = [r \in Runs |-> <<>>]
    /\ deploy_config = [r \in Runs |-> None]
    /\ builder = [r \in Runs |-> None]
    /\ engine = [r \in Runs |-> [linker |-> {}, ctx |-> None, module |-> None, export |-> Unknown]]
    /\ function = [r \in Runs |-> None]
    /\ invocation = [r \in Runs |-> None]
    /\ outcome = [r \in Runs |-> NoOutcome]
    /\ handles = [r \in Runs |-> {}]
    /\ opens = [r \in Runs |-> <<>>]
    /\ trace = [r \in Runs |-> <<>>]

\* What is left of the variables when the read loop takes a step.
PipelineUnchanged ==
    UNCHANGED <<input, pc, root, rc, deploy_config, builder, engine, function, invocation,
                outcome, handles, opens, trace, hostfs, host0>>

\* One iteration with n > 0: pread(&mut buf[len..], len) delivers n of the
\* bytes available for the slice offered; len += n; buf is extended.  A
\* slice that starts beyond the buffer panics.
ReadMore ==
    /\ reading.at = "loop"
    /\ IF reading.len > Len(reading.buf)
       THEN reading' = [reading EXCEPT !.at = "panic"]
       ELSE LET offered == Len(reading.buf) - reading.len
                avail == pread_n(reading.content, offered, reading.len)
            IN \E n \in 1..avail :
                  LET got == pread_data(reading.content, reading.rc, n, reading.len)
                      len == reading.len + n
                  IN reading' = [reading EXCEPT
                                    !.buf = Grow(Fill(reading.buf, reading.len, got), len),
                                    !.len = len,
                                    !.n = n,
                                    !.reads = @ + 1]
    /\ PipelineUnchanged

\* The last iteration: pread delivers 0, the loop is left and &buf[..len] is
\* handed to the deserializer.
ReadEnd ==
    /\ reading.at = "loop"
    /\ reading.len <= Len(reading.buf)
    /\ pread_n(reading.content, Len(reading.buf) - reading.len, reading.len) = 0
    /\ reading' = [reading EXCEPT
                      !.at = "done",
                      !.n = 0,
                      !.slice = SubSeq(reading.buf, 1, reading.len)]
    /\ PipelineUnchanged

NextRead == ReadMore \/ ReadEnd

\* The loop runs on the caller's thread until it is left.
SpecRead == InitRead /\ [][NextRead]_vars /\ WF_vars(NextRead)

----------------------------------------------------------------------------
(* Properties of the outcome of run *)

Last(q) == q[Len(q)]

Executed(r, step) == \E i \in 1..Len(trace[r]) : trace[r][i] = step

Returned(r) == pc[r] = "done"

Failed(r) == Returned(r) /\ outcome[r].error # None

Succeeded(r) == Returned(r) /\ outcome[r].values # None

\* C1: a run that has returned has returned exactly one of: the complete
\* sequence of result values the entry point returned, or one error of one of
\* the five kinds; a run that has not returned has no outcome, and no run
\* ends without returning.
C1_ExactlyOneOutcome ==
    \A r \in Runs :
       /\ pc[r] # "panic"
       /\ ~Returned(r) => outcome[r] = NoOutcome
       /\ Returned(r) =>
            \/ /\ outcome[r].values # None
               /\ outcome[r].error = None
               /\ invocation[r] # None
               /\ invocation[r].returned # None
               /\ outcome[r].values.val = invocation[r].returned.val
            \/ /\ outcome[r].values = None
               /\ outcome[r].error # None
               /\ outcome[r].error.val.kind \in ErrorKinds

\* C1 witness: the entry point ran, wrote output and trapped, and run returned
\* the error alone.
C1_Witness ==
    /\ Returned(1)
    /\ invocation[1] # None
    /\ invocation[1].ran
    /\ invocation[1].wrote # <<>>
    /\ outcome[1] = [values |-> None, error |-> Some(CallFailed)]

\* C2: a run in which every step succeeded called the default entry point
\* with no arguments and returned exactly the values the entry point returned,
\* in the same order; values are returned in no other case.  In particular an
\* entry point returning 1, run with no archive, no args and no envs, makes run
\* return the single value 1.
C2_ReturnsEntryResultsVerbatim ==
    \A r \in Runs :
       /\ (Returned(r) /\ trace[r] = StepOrder /\ invocation[r].returned # None) =>
            /\ invocation[r].args = <<>>
            /\ invocation[r].ran
            /\ outcome[r] = [values |-> invocation[r].returned, error |-> None]
       /\ Succeeded(r) =>
            /\ trace[r] = StepOrder
            /\ invocation[r].args = <<>>
            /\ outcome[r].values = invocation[r].returned
       /\ ( /\ Returned(r)
            /\ input[r] = [bundle |-> PlainBundle, args |-> <<>>, envs |-> <<>>]
            /\ trace[r] = StepOrder
            /\ invocation[r].returned = Some(<<1>>) ) =>
            outcome[r].values = Some(<<1>>)

\* C2 witness: a module returning 1 was run with no archive, no args and no
\* envs, and run returned <<1>>; and a run returned two values in order.
C2_Witness ==
    /\ Returned(1)
    /\ input[1] = [bundle |-> PlainBundle, args |-> <<>>, envs |-> <<>>]
    /\ invocation[1] # None
    /\ invocation[1].returned = Some(<<1>>)
    /\ outcome[1].values = Some(<<1>>)

\* C2 witness for the order of several values.
C2_WitnessTwoValues ==
    /\ Returned(1)
    /\ invocation[1] # None
    /\ invocation[1].returned = Some(<<1, 2>>)
    /\ outcome[1].values = Some(<<1, 2>>)

\* C3: when the module has no default entry point, run fails with
\* ExportNotFound, the entry point is never called and no value is returned.
C3_NoExportFails ==
    \A r \in Runs :
       engine[r].export = None =>
          /\ Returned(r)
          /\ outcome[r] = [values |-> None, error |-> Some(ExportNotFound)]
          /\ invocation[r] = None
          /\ function[r] = None
          /\ ~Executed(r, "call")

\* C3 witness: a valid module (compiled and linked) without default entry
\* point was run.
C3_Witness ==
    /\ engine[1].export = None
    /\ engine[1].module # None
    /\ "module" \in engine[1].linker
    /\ Returned(1)
    /\ outcome[1].error = Some(ExportNotFound)

----------------------------------------------------------------------------
(* The order of the stages *)

StepIndex(step) == CHOOSE i \in 1..Len(StepOrder) : StepOrder[i] = step

Steps == {StepOrder[i] : i \in 1..Len(StepOrder)}

\* The stages of the pipeline, in the order section 4.5 of the specification
\* gives them.
StageOrder ==
    <<"Parsed", "FilesystemBuilt", "ConfigResolved", "StdioBound", "EngineCompiled",
      "Linked", "Instantiated", "EntryResolved", "Invoked">>

\* The stages a step of run completes when it succeeds.
StagesOf(step) ==
    CASE step = "populate_virtfs" -> <<"Parsed", "FilesystemBuilt">>
      [] step = "config" -> <<"ConfigResolved">>
      [] step = "stderr" -> <<"StdioBound">>
      [] step = "from_binary" -> <<"EngineCompiled">>
      [] step = "module" -> <<"Linked", "Instantiated">>
      [] step = "get_default" -> <<"EntryResolved">>
      [] step = "call" -> <<"Invoked">>
      [] OTHER -> <<>>

\* The error kinds a step of run can end the run with.
StepErrors(step) ==
    CASE step = "populate_virtfs" -> {"IoError"}
      [] step = "config" -> {"InstantiationFailed"}
      [] step = "stdin" -> {"ConfigurationError", "IoError"}
      [] step \in {"stdout", "stderr"} -> {"IoError"}
      [] step \in {"build", "add_to_linker", "from_binary", "module"} -> {"InstantiationFailed"}
      [] step = "get_default" -> {"ExportNotFound"}
      [] step = "call" -> {"CallFailed"}
      [] OTHER -> {}

RECURSIVE StagesOfSteps(_)
StagesOfSteps(steps) ==
    IF steps = <<>> THEN <<>> ELSE StagesOf(Head(steps)) \o StagesOfSteps(Tail(steps))

\* The steps of run r that succeeded: all the executed ones, but the last of
\* a failed run.
SucceededSteps(r) ==
    IF outcome[r].error # None /\ trace[r] # <<>>
    THEN SubSeq(trace[r], 1, Len(trace[r]) - 1)
    ELSE trace[r]

\* C4: the steps a run has executed are an initial part of the order of the
\* code, each executed once; the stages completed are an initial part of
\* Parsed .. Invoked; a step is about to execute only when exactly the steps
\* before it have executed and none failed; a run with an error has returned,
\* its error is one of the step it executed last, and a run that has returned
\* executes nothing more.
C4_StagesInOrderNoRetry ==
    \A r \in Runs :
       /\ IsPrefix(trace[r], StepOrder)
       /\ IsPrefix(StagesOfSteps(SucceededSteps(r)), StageOrder)
       /\ pc[r] \in Steps =>
            /\ trace[r] = SubSeq(StepOrder, 1, StepIndex(pc[r]) - 1)
            /\ outcome[r] = NoOutcome
       /\ outcome[r].error # None =>
            /\ Returned(r)
            /\ trace[r] # <<>>
            /\ outcome[r].error.val.kind \in StepErrors(Last(trace[r]))
       /\ Returned(r) => ~ENABLED Step(r)

\* C4 witness: a run failed at the compilation of the module, after parsing,
\* configuration and stdio binding (with a host file bound) had succeeded,
\* and has executed nothing since.
C4_Witness ==
    /\ Returned(1)
    /\ trace[1] = SubSeq(StepOrder, 1, StepIndex("from_binary"))
    /\ builder[1].stdout.tag = "OsFile"
    /\ outcome[1].error = Some(InstantiationFailed)

----------------------------------------------------------------------------
(* Side effects on the host *)

\* The host paths run r opened for writing (created or truncated).
WriteOpened(r) ==
    {opens[r][i].path : i \in {j \in 1..Len(opens[r]) :
                                  opens[r][j].mode = "create-truncate-write" /\ opens[r][j].ok}}

\* What the workload of run r wrote to the host path p.
WrittenTo(r, p) ==
    IF invocation[r] # None /\ invocation[r].ran /\ builder[r].stdout = OsFile(p)
    THEN invocation[r].wrote
    ELSE <<>>

\* C5 as stated: after a failed run the host filesystem is as before the run.
C5_FailedRunLeavesHostUnchanged ==
    \A r \in Runs : Failed(r) => hostfs = host0

\* C5 as amended: after a failed run every host path the run did not open
\* for stdout or stderr is as before the run; a path it opened for stdout or
\* stderr stays created and truncated, holding only what the workload wrote
\* before the failure; the run holds no open file.
C5_FailedRunKeepsTruncation ==
    \A r \in Runs :
       Failed(r) =>
          /\ handles[r] = {}
          /\ \A p \in HostPaths :
                IF p \in WriteOpened(r)
                THEN hostfs[p] = Regular(WrittenTo(r, p))
                ELSE hostfs[p] = host0[p]

\* C5 witness: stdout was bound to a host file holding data, then the module
\* failed to compile; the file is left empty.
C5_Witness ==
    /\ Failed(1)
    /\ Last(trace[1]) = "from_binary"
    /\ "out.txt" \in WriteOpened(1)
    /\ host0["out.txt"] = Regular(<<7>>)
    /\ hostfs["out.txt"] = Regular(<<>>)

----------------------------------------------------------------------------
(* Resolution of the deployment configuration *)

\* The node at the well-known configuration path of run r's tree.
ConfigEntry(r) == RootMapGet(root[r], "config.yaml")

FailedAt(r, step) == Failed(r) /\ Last(trace[r]) = step

\* C6 as stated: a Directory at the configuration path, or a File that does
\* not deserialize, fails the run with InstantiationFailed, and the default
\* is used only when the path is absent.
C6_DirectoryOrBadConfigFails ==
    \A r \in Runs :
       Executed(r, "config") =>
          /\ ConfigEntry(r).type = "Directory" =>
                FailedAt(r, "config") /\ outcome[r].error = Some(InstantiationFailed)
          /\ (ConfigEntry(r).type = "File"
                /\ ~Deserialize(FileData(ConfigEntry(r), rc[r])).ok) =>
                FailedAt(r, "config") /\ outcome[r].error = Some(InstantiationFailed)
          /\ (ConfigEntry(r).type # "File" /\ deploy_config[r] = ConfigDefault) =>
                ConfigEntry(r).type = "NotFound"

\* C6 as amended: a File at the configuration path that cannot be read or
\* does not deserialize fails the run with InstantiationFailed, and one that
\* deserializes gives the configuration; a Directory at the path, like an
\* absent path, gives the all-discarded default and the run goes on.
C6_BadConfigFailsDirectoryDefaults ==
    \A r \in Runs :
       Executed(r, "config") =>
          /\ ConfigEntry(r).type \in {"Directory", "NotFound"} =>
                /\ deploy_config[r] = ConfigDefault
                /\ ~FailedAt(r, "config")
          /\ (ConfigEntry(r).type = "File"
                /\ ~Deserialize(FileData(ConfigEntry(r), rc[r])).ok) =>
                /\ FailedAt(r, "config")
                /\ outcome[r].error = Some(InstantiationFailed)
                /\ deploy_config[r] = None
          /\ (ConfigEntry(r).type = "File"
                /\ Deserialize(FileData(ConfigEntry(r), rc[r])).ok) =>
                \/ deploy_config[r] = Deserialize(FileData(ConfigEntry(r), rc[r])).config
                \/ /\ FailedAt(r, "config")
                   /\ outcome[r].error = Some(InstantiationFailed)
                   /\ deploy_config[r] = None

\* C6 witness: the configuration path is a Directory and the run went on,
\* with the default configuration, up to the call of the entry point.
C6_Witness ==
    /\ ConfigEntry(1).type = "Directory"
    /\ deploy_config[1] = ConfigDefault
    /\ Succeeded(1)

----------------------------------------------------------------------------
(* Malformed bundles *)

HasCorruptEntry(b) ==
    b.kind = "Bundled" /\ \E i \in 1..Len(b.archive) : b.archive[i].etype = "corrupt"

\* The bundle parser, or the archive reader in its handler, reports a failure.
MalformedInput(b) == b.kind = "Malformed" \/ HasCorruptEntry(b)

----------------------------------------------------------------------------
(* The default configuration *)

AllUnbound(b) == b.stdin = Unbound /\ b.stdout = Unbound /\ b.stderr = Unbound

\* C8: when the tree holds nothing at the configuration path (also when the
\* input holds no archive), the run does not fail in the configuration step,
\* the configuration is Null for stdin, stdout and stderr, no stream is ever
\* bound, and run opens, creates or truncates no host file.
C8_NoConfigResourceAllDiscarded ==
    \A r \in Runs :
       (Executed(r, "config") /\ ConfigEntry(r).type = "NotFound") =>
          /\ ~FailedAt(r, "config")
          /\ deploy_config[r].stdin.tag = "Null"
          /\ deploy_config[r].stdout.tag = "Null"
          /\ deploy_config[r].stderr.tag = "Null"
          /\ AllUnbound(builder[r])
          /\ engine[r].ctx # None => AllUnbound(engine[r].ctx.val)
          /\ opens[r] = <<>>
          /\ handles[r] = {}
          /\ hostfs = host0

\* C8 witness: a module with no archive ran to success, its output was
\* discarded.
C8_Witness ==
    /\ input[1].bundle = PlainBundle
    /\ root[1] = empty_directory
    /\ Succeeded(1)
    /\ invocation[1].wrote # <<>>
    /\ hostfs = host0

----------------------------------------------------------------------------
(* stdin from the bundle *)

StdinEntry(r) == lookup(root[r], deploy_config[r].stdin.path)

StdinFromBundle(r) == Executed(r, "stdin") /\ deploy_config[r].stdin.tag = "Bundle"

\* C9: a stdin bundle path that is missing or a Directory fails the run with
\* ConfigurationError in the stdin step: stdout and stderr are never bound,
\* no host file is touched and the module is never compiled.
C9_BadBundleStdinConfigurationError ==
    \A r \in Runs :
       (StdinFromBundle(r) /\ StdinEntry(r).type \in {"NotFound", "Directory"}) =>
          /\ FailedAt(r, "stdin")
          /\ outcome[r] = [values |-> None, error |-> Some(ConfigurationError)]
          /\ AllUnbound(builder[r])
          /\ engine[r].ctx = None
          /\ engine[r].module = None
          /\ opens[r] = <<>>
          /\ hostfs = host0

\* C9 witness: stdin names a Directory of the bundle while stdout names a
\* host file; the run failed and the host file is untouched.
C9_Witness ==
    /\ StdinFromBundle(1)
    /\ StdinEntry(1).type = "Directory"
    /\ deploy_config[1].stdout = WriteOnlyFile("out.txt")
    /\ Failed(1)
    /\ hostfs["out.txt"] = Regular(<<7>>)

\* What a reader of the stream gets by reading it one byte at a time up to
\* the end of the stream.
RECURSIVE StreamRead(_, _, _)
StreamRead(file, buf, pos) ==
    IF pread_n(file, 1, pos) = 0 THEN <<>>
    ELSE pread_data(file, buf, 1, pos) \o StreamRead(file, buf, pos + 1)

\* The data of the entry of the archive at a path (the last one, if several).
EntryData(archive, path) ==
    LET is == {i \in 1..Len(archive) : archive[i].etype = "file" /\ archive[i].path = path}
    IN archive[CHOOSE i \in is : \A j \in is : j <= i].data

\* C10: a stdin bundle path that is a File binds stdin to an in-memory stream
\* that yields the data of that entry of the archive and then ends; the run
\* does not fail in the stdin step and never goes on with stdin unbound.
C10_BundleStdinBound ==
    \A r \in Runs :
       (StdinFromBundle(r) /\ StdinEntry(r).type = "File") =>
          /\ ~FailedAt(r, "stdin")
          /\ builder[r].stdin.tag = "InMemoryFile"
          /\ StreamRead(builder[r].stdin.file, rc[r], 0)
                = EntryData(input[r].bundle.archive, deploy_config[r].stdin.path)
          /\ engine[r].ctx # None => engine[r].ctx.val.stdin = builder[r].stdin

\* C10 witness: stdin is bundle:"in.txt", the archive holds in.txt with the
\* content "hi" (104, 105), and the workload ran with a stdin yielding it.
C10_Witness ==
    /\ StdinFromBundle(1)
    /\ deploy_config[1].stdin.path = <<"in.txt">>
    /\ StdinEntry(1).type = "File"
    /\ invocation[1] # None
    /\ invocation[1].ran
    /\ StreamRead(engine[1].ctx.val.stdin.file, rc[1], 0) = <<104, 105>>

----------------------------------------------------------------------------
(* Host files of stdin, stdout and stderr *)

\* The opens the configuration of run r asks for in the steps executed so far.
OpenOf(r, step, policy, mode) ==
    IF Executed(r, step) /\ policy.tag = "File"
    THEN <<[path |-> policy.path, mode |-> mode]>>
    ELSE <<>>

ExpectedOpens(r) ==
    OpenOf(r, "stdin", deploy_config[r].stdin, "read")
    \o OpenOf(r, "stdout", deploy_config[r].stdout, "create-truncate-write")
    \o OpenOf(r, "stderr", deploy_config[r].stderr, "create-truncate-write")

\* The error of the operating system for an open of a path in state st.
OsErrorOf(mode, st) ==
    CASE st = "Denied" -> "PermissionDenied"
      [] st = "Absent" /\ mode = "read" -> "NotFound"
      [] OTHER -> "none"

\* C11: run opens exactly the host paths its configuration names, the one
\* of stdin for reading (the file is left as it was), those of stdout and
\* stderr creating and truncating them (the file exists and holds only what
\* the workload wrote since); an open that fails is the last thing the run
\* does: it returns IoError wrapping the error of the operating system, and
\* an open that succeeds met no such error.
C11_HostOpensAndIoError ==
    \A r \in Runs :
       deploy_config[r] # None =>
          /\ [i \in 1..Len(opens[r]) |-> [path |-> opens[r][i].path, mode |-> opens[r][i].mode]]
                = ExpectedOpens(r)
          /\ \A i \in 1..Len(opens[r]) :
                LET o == opens[r][i]
                    e == OsErrorOf(o.mode, host0[o.path].st)
                IN /\ o.ok <=> e = "none"
                   /\ ~o.ok =>
                         /\ i = Len(opens[r])
                         /\ Failed(r)
                         /\ outcome[r] = [values |-> None, error |-> Some(IoError(e))]
                         /\ Last(trace[r]) \in {"stdin", "stdout", "stderr"}
                   /\ (o.ok /\ o.mode = "read") => hostfs[o.path] = host0[o.path]
                   /\ (o.ok /\ o.mode = "create-truncate-write") =>
                         hostfs[o.path] = Regular(WrittenTo(r, o.path))
          /\ (Failed(r) /\ Last(trace[r]) \in {"stdout", "stderr"}) =>
                /\ opens[r] # <<>>
                /\ ~Last(opens[r]).ok

\* C11 witness: stdout was created on the host where it was absent, then the
\* open of stderr failed and run returned the error of the operating system.
C11_Witness ==
    /\ Len(opens[1]) = 2
    /\ opens[1][1] = [path |-> "out.txt", mode |-> "create-truncate-write", ok |-> TRUE]
    /\ ~opens[1][2].ok
    /\ host0["out.txt"] = Absent
    /\ hostfs["out.txt"] = Regular(<<>>)
    /\ FailedAt(1, "stderr")
    /\ outcome[1].error = Some(IoError("PermissionDenied"))

----------------------------------------------------------------------------
(* The preopened root *)

ThePreopen(r) == <<[name |-> ".", tree |-> root[r]]>>

\* C12: a run whose stdio binding succeeded preopens its root exactly once,
\* under the name ".", whatever the configuration; before that nothing is
\* preopened; the context, the compiled module, the linked module and the
\* call exist only with that preopen.
C12_RootPreopenedOnce ==
    \A r \in Runs :
       /\ (builder[r] # None /\ ~Executed(r, "build")) => builder[r].preopened = <<>>
       /\ Executed(r, "build") => builder[r].preopened = ThePreopen(r)
       /\ engine[r].ctx # None => engine[r].ctx.val.preopened = ThePreopen(r)
       /\ (engine[r].module # None \/ engine[r].linker # {} \/ invocation[r] # None) =>
             /\ engine[r].ctx # None
             /\ Len(engine[r].ctx.val.preopened) = 1
             /\ engine[r].ctx.val.preopened[1].name = "."

\* C12 witness: with every stream inherited, the workload ran with the root
\* of the archive preopened.
C12_Witness ==
    /\ deploy_config[1] # None
    /\ deploy_config[1].stdout = WriteOnlyInherit
    /\ invocation[1] # None
    /\ invocation[1].ran
    /\ DOMAIN root[1] # {<<>>}
    /\ engine[1].ctx.val.preopened = ThePreopen(1)

----------------------------------------------------------------------------
(* Arguments and environment *)

\* C14: the builder, the context built from it and the workload when it
\* runs hold the args and envs run was called with, same elements in the same
\* order; a workload that returns the number of its arguments makes run
\* return the number of args.
C14_ArgsAndEnvsUnchanged ==
    \A r \in Runs :
       /\ builder[r] # None =>
             builder[r].args = input[r].args /\ builder[r].envs = input[r].envs
       /\ engine[r].ctx # None =>
             /\ engine[r].ctx.val.args = input[r].args
             /\ engine[r].ctx.val.envs = input[r].envs
       /\ invocation[r] # None =>
             /\ invocation[r].argv = input[r].args
             /\ invocation[r].envs = input[r].envs
             /\ (invocation[r].ran /\ invocation[r].argc /\ invocation[r].returned # None) =>
                   outcome[r].values = Some(<<Len(input[r].args)>>)

\* C14 witness: run with the args a, b, c, a workload counting its arguments
\* returned 3.
C14_Witness ==
    /\ input[1].args = <<"a", "b", "c">>
    /\ Succeeded(1)
    /\ invocation[1].argc
    /\ invocation[1].argv = <<"a", "b", "c">>
    /\ outcome[1].values = Some(<<3>>)

----------------------------------------------------------------------------
(* Errors of the engine stages *)

\* C16: each engine stage that fails ends the run with its own error kind:
\* context construction, linker registration, compilation and linking with
\* InstantiationFailed, the resolution of the default entry point with
\* ExportNotFound, the call (a trap, or a call the engine rejects) with
\* CallFailed; CallFailed is returned only by the call of a resolved entry
\* point of a compiled and linked module, and ExportNotFound only by the
\* resolution, before any call.
C16_EngineStageErrors ==
    \A r \in Runs :
       /\ (Executed(r, "build") /\ engine[r].ctx = None) =>
             FailedAt(r, "build") /\ outcome[r].error = Some(InstantiationFailed)
       /\ (Executed(r, "add_to_linker") /\ "wasi" \notin engine[r].linker) =>
             FailedAt(r, "add_to_linker") /\ outcome[r].error = Some(InstantiationFailed)
       /\ (Executed(r, "from_binary") /\ engine[r].module = None) =>
             FailedAt(r, "from_binary") /\ outcome[r].error = Some(InstantiationFailed)
       /\ (Executed(r, "module") /\ "module" \notin engine[r].linker) =>
             FailedAt(r, "module") /\ outcome[r].error = Some(InstantiationFailed)
       /\ (Executed(r, "get_default") /\ engine[r].export = None) =>
             FailedAt(r, "get_default") /\ outcome[r].error = Some(ExportNotFound)
       /\ (Executed(r, "call") /\ invocation[r].returned = None) =>
             FailedAt(r, "call") /\ outcome[r].error = Some(CallFailed)
       /\ outcome[r].error = Some(CallFailed) =>
             /\ FailedAt(r, "call")
             /\ invocation[r] # None
             /\ invocation[r].returned = None
             /\ function[r] # None
             /\ engine[r].module # None
             /\ engine[r].linker = {"wasi", "module"}
       /\ outcome[r].error = Some(ExportNotFound) =>
             FailedAt(r, "get_default") /\ invocation[r] = None
       /\ (outcome[r].error = Some(InstantiationFailed) /\ engine[r].ctx # None) =>
             Last(trace[r]) \in {"add_to_linker", "from_binary", "module"}

\* C16 witness: the entry point ran and trapped; run returned CallFailed.
C16_Witness ==
    /\ FailedAt(1, "call")
    /\ invocation[1].ran
    /\ invocation[1].returned = None
    /\ outcome[1].error = Some(CallFailed)
    /\ engine[1].linker = {"wasi", "module"}

----------------------------------------------------------------------------
(* The tree after it is built *)

\* The tree and the shared buffer populate_virtfs builds from the input of
\* run r.
Built(r) == populate_virtfs(empty_directory, input[r].bundle)

\* C18: once populate_virtfs has returned, the tree and the bytes of its
\* shared buffer stay as built through every later step of the run
\* (configuration, stdin, stdout, stderr, preopening, compilation, call), and
\* the tree preopened in the sandbox context is the tree as built.
C18_TreeUnchangedAfterPopulate ==
    \A r \in Runs :
       Executed(r, "populate_virtfs") =>
          /\ root[r] = Built(r).tree
          /\ rc[r] = Built(r).rc
          /\ Executed(r, "build") =>
                /\ Len(builder[r].preopened) = 1
                /\ builder[r].preopened[1].tree = Built(r).tree
          /\ engine[r].ctx # None =>
                engine[r].ctx.val.preopened[1].tree = Built(r).tree

\* C18 witness: a run that read its configuration from the tree, bound stdin
\* to a File of the tree, preopened the tree and ran the entry point.
C18_Witness ==
    /\ Succeeded(1)
    /\ ConfigEntry(1).type = "File"
    /\ StdinFromBundle(1)
    /\ builder[1].stdin = InMemoryFile(StdinEntry(1))
    /\ invocation[1].ran
    /\ Cardinality(DOMAIN root[1]) = 3
    /\ engine[1].ctx.val.preopened[1].tree = root[1]

----------------------------------------------------------------------------
(* The root of the tree *)

\* C19: the root of the tree of a run is a Directory in every state: as
\* created, after every populate of populate_virtfs, whatever the entries,
\* and after a populate_virtfs that failed part-way; the unreachable!() arm
\* of the configuration lookup is never executed.
C19_RootIsDirectory ==
    \A r \in Runs :
       /\ <<>> \in DOMAIN root[r]
       /\ root[r][<<>>] = Directory
       /\ lookup(root[r], <<>>) = Directory
       /\ pc[r] # "panic"

\* C19 witness: populate failed on the second entry of the archive, after
\* the first was inserted below the root.
C19_Witness ==
    /\ FailedAt(1, "populate_virtfs")
    /\ outcome[1].error = Some(IoError("PopulateError"))
    /\ Cardinality(DOMAIN root[1]) = 2
    /\ root[1][<<>>] = Directory

----------------------------------------------------------------------------
(* Tree correctness *)

\* The archive of run r, once populate_virtfs has handled every entry of it.
Populated(r) ==
    /\ Executed(r, "populate_virtfs")
    /\ ~FailedAt(r, "populate_virtfs")
    /\ input[r].bundle.kind = "Bundled"

WellFormed(a) == \A i \in 1..Len(a) : a[i].etype = "file"

UniquePaths(a) == \A i, j \in 1..Len(a) : i # j => a[i].path # a[j].path

\* No entry's path is another's, or leads through another's.
PrefixFree(a) == \A i, j \in 1..Len(a) : i # j => ~IsPrefix(a[i].path, a[j].path)

EntryPaths(a) == {a[i].path : i \in 1..Len(a)}

\* The paths of implied directories: what leads to an entry, the root included.
ImpliedDirectories(a) == {<<>>} \cup UNION {ProperPrefixes(p) : p \in EntryPaths(a)}

\* The paths looked up: every path of up to ProbeDepth segments.
ProbeDepth == 3

ProbePaths == SeqsUpTo({"config.yaml", "in.txt", "x", "nope"}, ProbeDepth)

\* Lookup of an entry's path gives a File that reads as the entry's data.
EntryLookedUp(r, e) ==
    LET f == lookup(root[r], e.path)
    IN /\ f.type = "File"
       /\ size(f) = Len(e.data)
       /\ StreamRead(f, rc[r], 0) = e.data

\* C15 as stated: for unique well-formed paths, every entry is looked up as a
\* File with its data, and every path that is not an entry's (the empty path
\* of the root aside) is not found.
C15_UniquePathsLookup ==
    \A r \in Runs :
       LET a == input[r].bundle.archive
       IN (Populated(r) /\ WellFormed(a) /\ UniquePaths(a)) =>
             /\ \A i \in 1..Len(a) : EntryLookedUp(r, a[i])
             /\ \A p \in ProbePaths \ (EntryPaths(a) \cup {<<>>}) :
                   lookup(root[r], p) = NotFound

\* C15: for well-formed paths none of which is, or leads through, another,
\* every entry is looked up as a File whose content read by repeated
\* positional reads is the entry's data, the root and every path leading to
\* an entry are looked up as a Directory, and every other path is not found.
C15_PrefixFreePathsLookup ==
    \A r \in Runs :
       LET a == input[r].bundle.archive
       IN (Populated(r) /\ WellFormed(a) /\ PrefixFree(a)) =>
             /\ \A i \in 1..Len(a) : EntryLookedUp(r, a[i])
             /\ \A p \in ImpliedDirectories(a) : lookup(root[r], p) = Directory
             /\ \A p \in ProbePaths \ (EntryPaths(a) \cup ImpliedDirectories(a)) :
                   lookup(root[r], p) = NotFound
             /\ DOMAIN root[r] = EntryPaths(a) \cup ImpliedDirectories(a)

\* C15 witness: an archive of two entries, one of them below an implied
\* directory, populated in full.
C15_Witness ==
    /\ Populated(1)
    /\ Len(input[1].bundle.archive) = 2
    /\ WellFormed(input[1].bundle.archive)
    /\ PrefixFree(input[1].bundle.archive)
    /\ lookup(root[1], <<"in.txt">>) = Directory
    /\ EntryLookedUp(1, FileEntry(<<"in.txt", "x">>, <<>>))
    /\ EntryLookedUp(1, FileEntry(<<"config.yaml">>, <<1, 1, 1>>))
    /\ lookup(root[1], <<"nope">>) = NotFound

----------------------------------------------------------------------------
(* The read loop *)

\* The bytes read so far are the first len bytes of the File, in order.
ReadSoFarIsPrefix ==
    reading.at = "loop" =>
       /\ reading.len <= size(reading.content)
       /\ reading.len <= Len(reading.buf)
       /\ SubSeq(reading.buf, 1, reading.len)
             = SubSeq(FileData(reading.content, reading.rc), 1, reading.len)

\* What the loop hands to the deserializer is the content of the File.
HandsOverContent ==
    reading.at = "done" =>
       /\ reading.slice = FileData(reading.content, reading.rc)
       /\ reading.slice = ReadConfig(reading.content, reading.rc)
       /\ reading.reads <= size(reading.content)

\* C17: for a File of any length and a pread that delivers between 1 and the
\* available number of bytes per call and 0 only at the end of the content,
\* the read loop is left, and what it hands to the deserializer is the whole
\* content of the File, every byte once and in order; the growth of the
\* buffer loses and overwrites nothing of what was read.
C17_ReadLoopHandsOverContent ==
    /\ [](ReadSoFarIsPrefix /\ HandsOverContent)
    /\ <>(reading.at = "done")

\* C17 witness: a File of three bytes at offset 1 was read in three reads of
\* one byte each and handed over.
C17_Witness ==
    /\ reading.at = "done"
    /\ reading.content = TarFile(1, 3)
    /\ reading.reads = 3
    /\ reading.slice = <<2, 1, 2>>
    /\ FileData(reading.content, reading.rc) = <<2, 1, 2>>

\* C20: at every positional read len is at most the length of the buffer, so
\* buf[len..] and buf[..len] are in bounds; a read that follows a non-zero
\* read is offered a non-empty slice; and the loop is left, on a read of 0,
\* only at the end of the content.
C20_ReadLoopInBounds ==
    /\ reading.at # "panic"
    /\ reading.len <= Len(reading.buf)
    /\ (reading.at = "loop" /\ reading.n > 0) => Len(reading.buf) - reading.len > 0
    /\ reading.at = "done" => reading.len = size(reading.content)

\* C20 witness: after a non-zero read that left content unread, the next
\* read is offered a non-empty slice.
C20_Witness ==
    /\ reading.at = "loop"
    /\ reading.n = 1
    /\ reading.len = 2
    /\ size(reading.content) = 3
    /\ Len(reading.buf) - reading.len > 0

----------------------------------------------------------------------------
(* Concurrent runs *)

\* What run r owns: everything but the host filesystem.
Private(r) ==
    <<input[r], root[r], rc[r], deploy_config[r], builder[r], engine[r], function[r],
      invocation[r], outcome[r], handles[r], opens[r], trace[r]>>

\* A step leaves alone what is owned by a run that did not take it.
OwnStateOnly ==
    \A r \in Runs :
       pc'[r] = pc[r] =>
          /\ input'[r] = input[r]
          /\ root'[r] = root[r]
          /\ rc'[r] = rc[r]
          /\ deploy_config'[r] = deploy_config[r]
          /\ builder'[r] = builder[r]
          /\ engine'[r] = engine[r]
          /\ function'[r] = function[r]
          /\ invocation'[r] = invocation[r]
          /\ outcome'[r] = outcome[r]
          /\ handles'[r] = handles[r]
          /\ opens'[r] = opens[r]
          /\ trace'[r] = trace[r]

\* Each run has the tree and the buffer built from its own input and the
\* sandbox context built from its own builder.
OwnObjects ==
    \A r \in Runs :
       /\ Executed(r, "populate_virtfs") =>
             root[r] = Built(r).tree /\ rc[r] = Built(r).rc
       /\ engine[r].ctx # None => engine[r].ctx.val = builder[r]
       /\ pc[r] = "new" => Private(r) = <<input[r], empty_directory, <<>>, None, None,
                                           [linker |-> {}, ctx |-> None, module |-> None,
                                            export |-> Unknown],
                                           None, None, NoOutcome, {}, <<>>, <<>> >>

\* The opens of a run succeed or fail as the host allowed before any run
\* started, and the run returns what its own entry point returned.
OwnOutcome ==
    \A r \in Runs :
       /\ \A i \in 1..Len(opens[r]) :
             LET o == opens[r][i]
                 e == OsErrorOf(o.mode, host0[o.path].st)
             IN /\ o.ok <=> e = "none"
                /\ ~o.ok => outcome[r] = [values |-> None, error |-> Some(IoError(e))]
       /\ Succeeded(r) => outcome[r].values = invocation[r].returned
       /\ (Returned(r) /\ invocation[r] # None /\ invocation[r].returned = None) =>
             outcome[r].error = Some(CallFailed)

\* The host paths some run other than r opened for writing.
WriteOpenedByOthers(r) == UNION {WriteOpened(s) : s \in Runs \ {r}}

\* Every host file a run opened for writing holds what its workload wrote.
OutputAsAlone ==
    \A r \in Runs :
       \A p \in WriteOpened(r) : hostfs[p] = Regular(WrittenTo(r, p))

\* A host file only one run opened for writing holds what the workload of
\* that run wrote; a host file no run opened for writing is as it was.
OutputAsAloneUnlessShared ==
    /\ \A r \in Runs :
          \A p \in WriteOpened(r) \ WriteOpenedByOthers(r) :
             hostfs[p] = Regular(WrittenTo(r, p))
    /\ \A p \in HostPaths \ UNION {WriteOpened(r) : r \in Runs} : hostfs[p] = host0[p]

\* C13 as stated: each of two concurrent runs has its own objects, and under
\* every interleaving the outcome of each and the output it leaves in the
\* host files it bound are those of the run alone.
C13_RunsIndependent == OwnObjects /\ OwnOutcome /\ OutputAsAlone

\* C13: two concurrent runs share no mutable state of the process: each has
\* its own engine, buffer, tree and context, changed by its own steps only,
\* and the outcome of each is that of the run alone; the host files are
\* shared: a file bound for writing by one run only holds the output of
\* that run, a file bound by both does not.
C13_RunsShareOnlyHostFiles ==
    /\ [][OwnStateOnly]_vars
    /\ [](OwnObjects /\ OwnOutcome /\ OutputAsAloneUnlessShared)

\* C13 witness: both runs returned Ok after their steps interleaved; run 2
\* bound stdout and stderr to host files and wrote to stdout, run 1 bound
\* nothing.
C13_Witness ==
    /\ Succeeded(1) /\ Succeeded(2)
    /\ input[1].bundle = PlainBundle
    /\ WriteOpened(1) = {}
    /\ WriteOpened(2) = {"out.txt", "err.txt"}
    /\ invocation[1].ran /\ invocation[2].ran
    /\ invocation[2].wrote = <<72>>
    /\ hostfs["out.txt"] = Regular(<<72>>)
    /\ host0["out.txt"] = Absent
    /\ root[1] # root[2]

====
